---- MODULE Spec2Model ----
(***************************************************************************)
(* Dynamic CRUD gateway (PostgreSQL variant of index.js, lines 167-486):   *)
(* create-table, save, read, update, delete, /api/me and /menuclick, over  *)
(* the physical tables, the txmaster catalog and the connection pool.      *)
(*                                                                         *)
(* A string is a sequence of characters.  A character is a one-character   *)
(* string, or, for a code point outside ASCII, the string "U+XXXX" naming  *)
(* it; the fixed pieces of a SQL template are kept as single chunks.  The  *)
(* case and white-space tables list the code points the inputs draw on.    *)
(* A JSON value of a request body is a record tagged with its JavaScript   *)
(* type.                                                                   *)
(***************************************************************************)
EXTENDS Bags, FiniteSets, Integers, Sequences, TLC

VARIABLES tables, txmaster, calls, alive, pc, req, resp, stmts, sqlToRun,
          acquired, released, checkedOut

vars == <<tables, txmaster, calls, alive, pc, req, resp, stmts, sqlToRun,
          acquired, released, checkedOut>>

\* tables      physical tables made by create-table or by a raw statement:
\*             name -> set of columns
\* txmaster    bag of the catalog rows (eform_name, dbname)
\* calls       per request to create-table, save, read, update or delete:
\*             endpoint, body, position in the handler (the await it is
\*             suspended at, and whether the backend has dealt with the
\*             statement awaited), the statements it has passed to
\*             pool.query, its response status (while suspended: 0, or
\*             the status the settled statement leads to), and whether
\*             its table existed when it arrived
\* alive       the server process is running
\* pc, req     per /api/me or /menuclick request: position in the handler,
\*             and its route, token cookie and transid
\* resp        response status of the request (0: none sent)
\* stmts       statements the request has executed, in order
\* sqlToRun    the stored statement fetched by the lookup
\* acquired, released   pool.connect() and client.release() calls so far
\* checkedOut  clients the pool has handed out and not got back
\*
\* Whether the backend carries out or rejects a statement is chosen freely
\* at each pool.query / client.query, except where the schema decides it.
crudVars == <<tables, txmaster, calls>>
menuVars == <<pc, req, resp, stmts, sqlToRun, acquired, released, checkedOut>>

-----------------------------------------------------------------------------
(* Bounds *)

NumReqs == 2

Reqs == 1..NumReqs

-----------------------------------------------------------------------------
(* JavaScript values of a parsed JSON body *)

Undefined == [t |-> "undefined", s |-> <<>>, e |-> <<>>]
Null == [t |-> "null", s |-> <<>>, e |-> <<>>]
Str(s) == [t |-> "string", s |-> s, e |-> <<>>]
Obj(e) == [t |-> "object", s |-> <<>>, e |-> e]

Entry(k, v) == [k |-> k, v |-> v]

\* !v : undefined, null and the empty string are falsy; every object,
\* the empty one included, is truthy
Falsy(v) == v.t \in {"undefined", "null"} \/ (v.t = "string" /\ v.s = <<>>)

\* typeof v (typeof null is "object", as in JavaScript)
TypeOf(v) == IF v.t = "null" THEN "object" ELSE v.t

\* String(v) as template interpolation applies it
JsString(v) ==
  IF v.t = "string" THEN v.s
  ELSE IF v.t = "object"
  THEN <<"[","o","b","j","e","c","t"," ","O","b","j","e","c","t","]">>
  ELSE IF v.t = "null" THEN <<"n","u","l","l">>
  ELSE <<"u","n","d","e","f","i","n","e","d">>

-----------------------------------------------------------------------------
(* Characters and strings *)

UpperAlpha == <<"A","B","C","D","E","F","G","H","I","J","K","L","M",
                "N","O","P","Q","R","S","T","U","V","W","X","Y","Z">>
LowerAlpha == <<"a","b","c","d","e","f","g","h","i","j","k","l","m",
                "n","o","p","q","r","s","t","u","v","w","x","y","z">>
DigitSeq == <<"0","1","2","3","4","5","6","7","8","9">>

Range(f) == {f[i] : i \in DOMAIN f}

Digits == Range(DigitSeq)

\* WhiteSpace and LineTerminator code points, the ones trim() strips
Whitespace ==
  {"\t", "\n", "U+000B", "\f", "\r", " ", "U+00A0", "U+1680", "U+2000",
   "U+2001", "U+2002", "U+2003", "U+2004", "U+2005", "U+2006", "U+2007",
   "U+2008", "U+2009", "U+200A", "U+2028", "U+2029", "U+202F", "U+205F",
   "U+3000", "U+FEFF"}

\* case mappings of the code points outside ASCII that the inputs use:
\* KELVIN SIGN, E WITH ACUTE (capital, small), I WITH DOT ABOVE, SHARP S,
\* LONG S, DOTLESS I, COMBINING DOT ABOVE
NonAsciiLetters ==
  {"U+212A", "U+00C9", "U+00E9", "U+0130", "U+00DF", "U+017F", "U+0131",
   "U+0307"}

AsciiWhitespace == {"\t", "\n", "U+000B", "\f", "\r", " "}

IsAscii(c) == c \notin NonAsciiLetters \cup (Whitespace \ AsciiWhitespace)

\* c.toLowerCase(): a string, since one code point may map to several
LowerChar(c) ==
  IF c \in Range(UpperAlpha)
  THEN <<LowerAlpha[CHOOSE i \in 1..26 : UpperAlpha[i] = c]>>
  ELSE IF c = "U+212A" THEN <<"k">>
  ELSE IF c = "U+00C9" THEN <<"U+00E9">>
  ELSE IF c = "U+0130" THEN <<"i", "U+0307">>
  ELSE <<c>>

\* c.toUpperCase()
UpperChar(c) ==
  IF c \in Range(LowerAlpha)
  THEN <<UpperAlpha[CHOOSE i \in 1..26 : LowerAlpha[i] = c]>>
  ELSE IF c = "U+00E9" THEN <<"U+00C9">>
  ELSE IF c = "U+00DF" THEN <<"S", "S">>
  ELSE IF c = "U+017F" THEN <<"S">>
  ELSE IF c = "U+0131" THEN <<"I">>
  ELSE <<c>>

RECURSIVE ToLowerCase(_)
ToLowerCase(s) ==
  IF s = <<>> THEN <<>> ELSE LowerChar(Head(s)) \o ToLowerCase(Tail(s))
RECURSIVE ToUpperCase(_)
ToUpperCase(s) ==
  IF s = <<>> THEN <<>> ELSE UpperChar(Head(s)) \o ToUpperCase(Tail(s))

RECURSIVE TrimStart(_)
TrimStart(s) ==
  IF s # <<>> /\ Head(s) \in Whitespace THEN TrimStart(Tail(s)) ELSE s
RECURSIVE TrimEnd(_)
TrimEnd(s) ==
  IF s # <<>> /\ s[Len(s)] \in Whitespace
  THEN TrimEnd(SubSeq(s, 1, Len(s) - 1)) ELSE s
Trim(s) == TrimEnd(TrimStart(s))

RECURSIVE Join(_, _)
Join(parts, sep) ==
  IF parts = <<>> THEN <<>>
  ELSE IF Len(parts) = 1 THEN parts[1]
  ELSE parts[1] \o sep \o Join(Tail(parts), sep)

\* /[^a-z0-9_]/ : the characters the sanitizer strips
IsSafeChar(c) == c \in Range(LowerAlpha) \cup Digits \cup {"_"}

\* table.toLowerCase().replace(/[^a-z0-9_]/g, "")
Sanitize(s) == SelectSeq(ToLowerCase(s), IsSafeChar)

\* Canonicalize of a case-insensitive pattern without the u flag: the
\* upper-case form, unless it is longer than one character or takes a
\* character outside ASCII into ASCII
Canonicalize(c) ==
  LET u == UpperChar(c)
  IN  IF Len(u) # 1 THEN c
      ELSE IF ~IsAscii(c) /\ IsAscii(u[1]) THEN c
      ELSE u[1]

SelectWord == <<"s","e","l","e","c","t">>

\* /^select/i.test(text)
StartsWithSelect(text) ==
  /\ Len(text) >= Len(SelectWord)
  /\ \A i \in 1..Len(SelectWord) :
       Canonicalize(text[i]) = Canonicalize(SelectWord[i])

\* decimal digits of a natural number
RECURSIVE NatToChars(_)
NatToChars(n) ==
  IF n < 10 THEN <<DigitSeq[n + 1]>>
  ELSE NatToChars(n \div 10) \o <<DigitSeq[(n % 10) + 1]>>

DigitValue(c) == (CHOOSE i \in 1..10 : DigitSeq[i] = c) - 1

\* the largest array index, 2^32 - 2, in decimal
MaxArrayIndex == <<"4","2","9","4","9","6","7","2","9","4">>

\* a <= b for canonical decimal numerals: by length, then digit by digit
NumLeq(a, b) ==
  \/ Len(a) < Len(b)
  \/ /\ Len(a) = Len(b)
     /\ \/ a = b
        \/ \E i \in 1..Len(a) :
             /\ \A j \in 1..(i - 1) : a[j] = b[j]
             /\ DigitValue(a[i]) < DigitValue(b[i])

\* an integer-like key: a canonical decimal numeral below 2^32 - 1
IsArrayIndex(k) ==
  /\ k # <<>>
  /\ \A i \in 1..Len(k) : k[i] \in Digits
  /\ (Len(k) > 1 => k[1] # "0")
  /\ NumLeq(k, MaxArrayIndex)

\* entries with integer-like keys, in ascending numeric order
RECURSIVE SortByIndex(_)
SortByIndex(es) ==
  IF es = <<>> THEN <<>>
  ELSE LET m == CHOOSE i \in 1..Len(es) :
                  \A j \in 1..Len(es) : NumLeq(es[i].k, es[j].k)
       IN  <<es[m]>> \o
           SortByIndex([i \in 1..(Len(es) - 1) |->
                          IF i < m THEN es[i] ELSE es[i + 1]])

HasIndexKey(en) == IsArrayIndex(en.k)
HasNameKey(en) == ~IsArrayIndex(en.k)

\* Object.entries(v): own enumerable properties, integer-like keys first in
\* ascending order, then the other keys in insertion order; the indices of
\* a string
ObjectEntries(v) ==
  IF v.t = "object"
  THEN SortByIndex(SelectSeq(v.e, HasIndexKey)) \o SelectSeq(v.e, HasNameKey)
  ELSE IF v.t = "string"
  THEN [i \in 1..Len(v.s) |-> Entry(NatToChars(i - 1), Str(<<v.s[i]>>))]
  ELSE <<>>

\* Object.keys(v)
ObjectKeys(v) == [i \in 1..Len(ObjectEntries(v)) |-> ObjectEntries(v)[i].k]

Stmt(sql, n) == [sql |-> sql, params |-> n]

-----------------------------------------------------------------------------
(* Request inputs *)

\* "k", "t", KELVIN SIGN followed by ";" (sanitized to "k"), ";" and {}
\* among the table values
TableVals ==
  {Undefined, Str(<<>>), Str(<<"k">>), Str(<<"t">>), Str(<<"U+212A", ";">>),
   Str(<<";">>), Obj(<<>>)}

Blob == Str(<<"B","l","o","b">>)
Text == Str(<<"t","e","x","t">>)
Json == Str(<<"j","s","o","n">>)

\* fields: absent, a string, {}, a one-column map, a map with whitelisted
\* types whose keys Object.entries reorders, maps with a type outside the
\* whitelist first or second in that order, and maps with a type that is
\* not a string
FieldsVals ==
  {Undefined, Str(<<"x">>), Obj(<<>>),
   Obj(<<Entry(<<"c">>, Blob)>>),
   Obj(<<Entry(<<"d",";">>, Blob), Entry(<<"0">>, Text)>>),
   Obj(<<Entry(<<"d",";">>, Json), Entry(<<"0">>, Blob)>>),
   Obj(<<Entry(<<"d",";">>, Blob), Entry(<<"0">>, Json)>>),
   Obj(<<Entry(<<"0">>, Null)>>),
   Obj(<<Entry(<<"d",";">>, Json), Entry(<<"0">>, Null)>>)}

DataValue == Str(<<"1">>)

TxmasterName == <<"t","x","m","a","s","t","e","r">>
EformNameCol == <<"e","f","o","r","m","_","n","a","m","e">>
DbnameCol == <<"d","b","n","a","m","e">>

\* rows for the catalog sent as data: one for table k, one for a table
\* that does not exist, one without eform_name
CatalogData ==
  {Obj(<<Entry(EformNameCol, Str(<<"f">>)), Entry(DbnameCol, Str(<<"k">>))>>),
   Obj(<<Entry(EformNameCol, Str(<<"f">>)),
         Entry(DbnameCol, Str(<<"g","h","o","s","t">>))>>),
   Obj(<<Entry(DbnameCol, Str(<<"g","h","o","s","t">>))>>)}

OneColumn == Obj(<<Entry(<<"c">>, DataValue)>>)

\* data: absent, a string, {}, one column, and columns whose keys
\* Object.keys reorders
DataVals ==
  {Undefined, Str(<<"a","b">>), Obj(<<>>), OneColumn,
   Obj(<<Entry(<<"c">>, DataValue), Entry(<<"1","0">>, DataValue),
         Entry(<<"2">>, DataValue)>>)}

\* the save, update and delete endpoints take the names of the catalog and
\* of the system tables like any other
CrudTableVals == TableVals \cup {Str(TxmasterName)}

AlwaysTrue == <<"1","=","1">>

WhereVals ==
  {Undefined, Null, Str(<<>>), Str(AlwaysTrue), Str(<<" ">>), Obj(<<>>)}

\* CREATE TABLE <name> (id serial) and DROP TABLE <name> as a client
\* writes them
RawCreateSql(name) ==
  <<"C","R","E","A","T","E"," ","T","A","B","L","E"," ">> \o name
  \o <<" ","(","i","d"," ","s","e","r","i","a","l",")">>

RawDropSql(name) == <<"D","R","O","P"," ","T","A","B","L","E"," ">> \o name

QueryVals ==
  {Undefined, Str(<<>>),
   Str(<<"s","e","l","e","c","t"," ","1">>),
   Str(<<"S","e","L","E","C","T"," ","1">>),
   Str(<<"\n","s","e","l","e","c","t"," ","1">>),
   Str(<<"U+017F","e","l","e","c","t"," ","1">>),
   Str(<<"D","E","L","E","T","E"," ","F","R","O","M"," ","t">>),
   Str(RawCreateSql(<<"k">>)), Str(RawDropSql(<<"k">>))}

EmptyBody ==
  [eform_name |-> Undefined, table |-> Undefined, fields |-> Undefined,
   data |-> Undefined, where |-> Undefined, query |-> Undefined]

Body(eform_name, table, fields, data, where, query) ==
  [eform_name |-> eform_name, table |-> table, fields |-> fields,
   data |-> data, where |-> where, query |-> query]

TwoColumns == Obj(<<Entry(<<"d",";">>, Json), Entry(<<"0">>, Blob)>>)

\* create-table bodies under the entity name "f": every table with no
\* column and with a type outside the whitelist, every fields value with
\* table k; and one body without an entity name
CreateTableBodies ==
  {Body(Str(<<"f">>), table, fields, Undefined, Undefined, Undefined) :
     table \in TableVals, fields \in {Obj(<<>>), TwoColumns}}
  \cup {Body(Str(<<"f">>), Str(<<"k">>), fields, Undefined, Undefined,
             Undefined) : fields \in FieldsVals}
  \cup {Body(Undefined, Str(<<"k">>), Obj(<<>>), Undefined, Undefined,
             Undefined)}

\* save bodies: every table with one column, every data value with table
\* k, and the catalog rows with table txmaster
SaveBodies ==
  {Body(Undefined, table, Undefined, OneColumn, Undefined, Undefined) :
     table \in CrudTableVals}
  \cup {Body(Undefined, Str(<<"k">>), Undefined, data, Undefined, Undefined) :
          data \in DataVals}
  \cup {Body(Undefined, Str(TxmasterName), Undefined, data, Undefined,
             Undefined) : data \in CatalogData}

\* update bodies: each of table, data and where varied in turn, and a
\* rewrite of the catalog
UpdateBodies ==
  {Body(Undefined, table, Undefined, OneColumn, Str(AlwaysTrue), Undefined) :
     table \in CrudTableVals}
  \cup {Body(Undefined, Str(<<"k">>), Undefined, data, Str(AlwaysTrue),
             Undefined) : data \in DataVals}
  \cup {Body(Undefined, Str(<<"k">>), Undefined, data, where, Undefined) :
          data \in {Obj(<<>>), OneColumn}, where \in WhereVals}
  \cup {Body(Undefined, Str(TxmasterName), Undefined, data, Str(AlwaysTrue),
             Undefined) : data \in CatalogData}

DeleteBodies ==
  {Body(Undefined, table, Undefined, Undefined, Str(AlwaysTrue), Undefined) :
     table \in CrudTableVals}
  \cup {Body(Undefined, Str(<<"k">>), Undefined, Undefined, where, Undefined) :
          where \in WhereVals}

ReadBodies ==
  {Body(Undefined, Undefined, Undefined, Undefined, Undefined, query) :
     query \in QueryVals}

\* a request: what it asked, where its handler stands, what it has sent to
\* the pool and what it answered
Call(ep, body, stage, status, executed, existed) ==
  [ep |-> ep, body |-> body, stage |-> stage, status |-> status,
   stmts |-> executed, tableExisted |-> existed]

NoCall == Call("none", EmptyBody, "idle", 0, <<>>, FALSE)

-----------------------------------------------------------------------------
(* Backend: the statements the handlers send, as PostgreSQL applies them *)

SystemColumns ==
  {<<"id">>, <<"created_on">>, <<"modified_on">>, <<"versionid">>}

\* CREATE TABLE IF NOT EXISTS <name> (...): creates the table with the
\* listed columns when it is absent, and leaves an existing table as it is
CreateTableIfNotExists(tbls, name, cols) ==
  IF name \in DOMAIN tbls THEN tbls
  ELSE [n \in DOMAIN tbls \cup {name} |-> IF n = name THEN cols ELSE tbls[n]]

\* txmaster.eform_name is NOT NULL; an undefined parameter is bound as NULL
ViolatesNotNull(eform_name) == eform_name.t \in {"undefined", "null"}

\* INSERT INTO txmaster (eform_name, dbname): txmaster has no key on dbname
InsertTxmaster(cat, eform_name, dbname) ==
  cat (+) SetToBag({[eform_name |-> JsString(eform_name), dbname |-> dbname]})

Registered(cat, name) == \E r \in BagToSet(cat) : r.dbname = name

-----------------------------------------------------------------------------
(* POST /api/create-table *)

AllowedTypes ==
  {<<"t","e","x","t">>, <<"i","n","t","e","g","e","r">>,
   <<"n","u","m","e","r","i","c">>, <<"d","a","t","e">>,
   <<"t","i","m","e","s","t","a","m","p">>, <<"u","u","i","d">>,
   <<"b","l","o","b">>}

\* allowedTypes.includes(type.toLowerCase()), for a string
IsAllowedType(type) == ToLowerCase(type.s) \in AllowedTypes

\* the entry at which the loop stops: type.toLowerCase() throws on a type
\* that is not a string, and a type outside the whitelist returns 400
Offends(en) == en.v.t # "string" \/ ~IsAllowedType(en.v)

\* a loop that tests the first entry only
FirstOffending_OnlyFirstEntry(entries) ==
  IF entries # <<>> /\ Offends(entries[1]) THEN 1 ELSE 0

\* index of the first such entry, 0 when the loop runs to its end
FirstOffending(entries) ==
  IF \E i \in 1..Len(entries) : Offends(entries[i])
  THEN CHOOSE i \in 1..Len(entries) :
         /\ Offends(entries[i])
         /\ \A j \in 1..(i - 1) : ~Offends(entries[j])
  ELSE 0

PgType(type) ==
  IF ToLowerCase(type.s) = <<"b","l","o","b">> THEN <<"BYTEA">>
  ELSE ToUpperCase(type.s)

ColumnDefs(entries) ==
  <<  <<"id SERIAL PRIMARY KEY">>  >>
  \o [i \in 1..Len(entries) |-> entries[i].k \o <<" ">> \o PgType(entries[i].v)]
  \o << <<"created_on TIMESTAMP DEFAULT now()">>,
        <<"modified_on TIMESTAMP DEFAULT now()">>,
        <<"versionid UUID DEFAULT gen_random_uuid()">> >>

CreateTableSql(safeTable, entries) ==
  <<"CREATE TABLE IF NOT EXISTS ">> \o safeTable \o <<" (">>
  \o Join(ColumnDefs(entries), <<", ">>) \o <<")">>

InsertTxmasterSql ==
  <<"INSERT INTO txmaster (eform_name, dbname) VALUES ($1, $2) RETURNING id, eform_name, dbname, created_on">>

PhysicalColumns(entries) == SystemColumns \cup {entries[i].k : i \in 1..Len(entries)}

\* the synchronous part of the handler, up to the first await: the status
\* it answers, or 0 when it sends the CREATE TABLE
CreateTableValidate(body) ==
  IF Falsy(body.table) \/ Falsy(body.fields) \/ TypeOf(body.fields) # "object"
  THEN 400
  ELSE IF body.table.t # "string" THEN 500
  ELSE IF Sanitize(body.table.s) = <<>> THEN 400
  ELSE LET entries == ObjectEntries(body.fields)
           i == FirstOffending(entries)
       IN  IF i = 0 THEN 0
           ELSE IF entries[i].v.t # "string" THEN 500
           ELSE 400

CreateStmt(body) ==
  Stmt(CreateTableSql(Sanitize(body.table.s), ObjectEntries(body.fields)), 0)

InsertStmt == Stmt(InsertTxmasterSql, 2)

\* a request arrives and runs to its first await or to its response
CreateTableArrive(r) ==
  /\ alive /\ calls[r].stage = "idle"
  /\ \E body \in CreateTableBodies :
       LET status == CreateTableValidate(body)
       IN  calls' = [calls EXCEPT ![r] =
             IF status # 0
             THEN Call("create-table", body, "done", status, <<>>, FALSE)
             ELSE Call("create-table", body, "create", 0,
                       <<CreateStmt(body)>>,
                       Sanitize(body.table.s) \in DOMAIN tables)]
  /\ UNCHANGED <<tables, txmaster, alive>>
  /\ UNCHANGED menuVars

\* the backend carries out or rejects the CREATE TABLE, on the database as
\* it is then; the handler stays suspended at its first await
RunCreateTable(r) ==
  /\ alive /\ calls[r].stage = "create"
  /\ \E ok \in BOOLEAN :
       LET c == calls[r]
       IN  /\ tables' = IF ok
                        THEN CreateTableIfNotExists(tables,
                               Sanitize(c.body.table.s),
                               PhysicalColumns(ObjectEntries(c.body.fields)))
                        ELSE tables
           /\ calls' = [calls EXCEPT ![r] =
                Call(c.ep, c.body, "created", IF ok THEN 0 ELSE 500,
                     c.stmts, c.tableExisted)]
  /\ UNCHANGED <<txmaster, alive>>
  /\ UNCHANGED menuVars

\* await pool.query(query) settles: the handler resumes and passes the
\* INSERT, or goes to its catch
CreateTableCreated(r) ==
  /\ alive /\ calls[r].stage = "created"
  /\ LET c == calls[r]
     IN  calls' = [calls EXCEPT ![r] =
           IF c.status = 0
           THEN Call(c.ep, c.body, "insert", 0, Append(c.stmts, InsertStmt),
                     c.tableExisted)
           ELSE Call(c.ep, c.body, "done", c.status, c.stmts, c.tableExisted)]
  /\ UNCHANGED <<tables, txmaster, alive>>
  /\ UNCHANGED menuVars

\* the backend carries out or rejects the INSERT INTO txmaster; the
\* handler stays suspended at its second await
RunInsertTxmaster(r) ==
  /\ alive /\ calls[r].stage = "insert"
  /\ \E ok \in BOOLEAN :
       LET c == calls[r]
           done == ok /\ ~ViolatesNotNull(c.body.eform_name)
       IN  /\ txmaster' = IF done
                          THEN InsertTxmaster(txmaster, c.body.eform_name,
                                              Sanitize(c.body.table.s))
                          ELSE txmaster
           /\ calls' = [calls EXCEPT ![r] =
                Call(c.ep, c.body, "inserted", IF done THEN 201 ELSE 500,
                     c.stmts, c.tableExisted)]
  /\ UNCHANGED <<tables, alive>>
  /\ UNCHANGED menuVars

\* await pool.query(INSERT INTO txmaster ...) settles: the handler resumes
\* and answers 201, or goes to its catch
CreateTableInserted(r) ==
  /\ alive /\ calls[r].stage = "inserted"
  /\ calls' = [calls EXCEPT ![r].stage = "done"]
  /\ UNCHANGED <<tables, txmaster, alive>>
  /\ UNCHANGED menuVars

-----------------------------------------------------------------------------
(* POST /api/save, POST /api/read, PUT /api/update, DELETE /api/delete *)

Placeholder(i) == <<"$">> \o NatToChars(i)

InsertSql(table, keys) ==
  <<"INSERT INTO ">> \o table \o <<" (">> \o Join(keys, <<", ">>)
  \o <<") VALUES (">>
  \o Join([i \in 1..Len(keys) |-> Placeholder(i)], <<", ">>)
  \o <<") RETURNING *">>

UpdateSql(table, keys, where) ==
  <<"UPDATE ">> \o table \o <<" SET ">>
  \o Join([i \in 1..Len(keys) |-> keys[i] \o <<"=">> \o Placeholder(i)], <<", ">>)
  \o <<" WHERE ">> \o where \o <<" RETURNING *">>

DeleteSql(table, where) ==
  <<"DELETE FROM ">> \o table \o <<" WHERE ">> \o where \o <<" RETURNING *">>

\* What the statements of these handlers do to the database.  The rows of
\* the tables made by create-table are not part of the state; the catalog
\* and the set of tables are, and these endpoints reach both.

HasKey(entries, k) == \E i \in 1..Len(entries) : entries[i].k = k

\* the value bound to column k, NULL when the statement does not name it
ValueOf(entries, k) ==
  IF HasKey(entries, k)
  THEN entries[CHOOSE i \in 1..Len(entries) : entries[i].k = k].v
  ELSE Null

\* columns of txmaster a statement can set with a text value
CatalogColumns == {EformNameCol, DbnameCol}

NamesCatalogColumns(entries) ==
  \A i \in 1..Len(entries) : entries[i].k \in CatalogColumns

\* INSERT INTO txmaster (...): both text columns are NOT NULL
InsertAccepted(table, entries) ==
  table = TxmasterName =>
    /\ NamesCatalogColumns(entries)
    /\ ~ViolatesNotNull(ValueOf(entries, EformNameCol))
    /\ ~ViolatesNotNull(ValueOf(entries, DbnameCol))

InsertRow(cat, table, entries) ==
  IF table = TxmasterName
  THEN InsertTxmaster(cat, ValueOf(entries, EformNameCol),
                      JsString(ValueOf(entries, DbnameCol)))
  ELSE cat

\* UPDATE txmaster SET ...: the columns must exist and stay non-null
UpdateAccepted(table, entries) ==
  table = TxmasterName =>
    /\ NamesCatalogColumns(entries)
    /\ \A i \in 1..Len(entries) : ~ViolatesNotNull(entries[i].v)

SetRow(row, entries) ==
  [eform_name |-> IF HasKey(entries, EformNameCol)
                  THEN JsString(ValueOf(entries, EformNameCol))
                  ELSE row.eform_name,
   dbname |-> IF HasKey(entries, DbnameCol)
              THEN JsString(ValueOf(entries, DbnameCol))
              ELSE row.dbname]

\* the condition 1=1 selects every row; the rows another condition
\* selects are not determined by the state
UpdateRows(cat, table, entries, where) ==
  IF table = TxmasterName /\ where = AlwaysTrue
  THEN BagOfAll(LAMBDA row : SetRow(row, entries), cat)
  ELSE cat

DeleteRows(cat, table, where) ==
  IF table = TxmasterName /\ where = AlwaysTrue THEN EmptyBag ELSE cat

\* table names the raw statements of the inputs use
RawNames == {<<"k">>}

\* CREATE TABLE of an existing table and DROP TABLE of a missing one fail
RawAccepted(tbls, text) ==
  \A name \in RawNames :
    /\ text = RawCreateSql(name) => name \notin DOMAIN tbls
    /\ text = RawDropSql(name) => name \in DOMAIN tbls

\* a raw statement of the read endpoint, once accepted
RunRaw(tbls, text) ==
  IF \E name \in RawNames : text = RawCreateSql(name)
  THEN CreateTableIfNotExists(
         tbls, CHOOSE name \in RawNames : text = RawCreateSql(name), {<<"id">>})
  ELSE IF \E name \in RawNames : text = RawDropSql(name)
  THEN LET name == CHOOSE n \in RawNames : text = RawDropSql(n)
       IN  [n \in DOMAIN tbls \ {name} |-> tbls[n]]
  ELSE tbls

Reply(status, executed, tbls, cat) ==
  [status |-> status, stmts |-> executed, tables |-> tbls, txmaster |-> cat]

SaveHandler(body, ok, tbls, cat) ==
  IF Falsy(body.table) \/ Falsy(body.data)
  THEN Reply(400, <<>>, tbls, cat)
  ELSE LET keys == ObjectKeys(body.data)
           values == ObjectEntries(body.data)
           table == JsString(body.table)
           sql == InsertSql(table, keys)
           done == ok /\ InsertAccepted(table, values)
       IN  Reply(IF done THEN 201 ELSE 500, <<Stmt(sql, Len(keys))>>, tbls,
                 IF done THEN InsertRow(cat, table, values) ELSE cat)

ReadHandler(body, ok, tbls, cat) ==
  IF Falsy(body.query)
  THEN Reply(400, <<>>, tbls, cat)
  ELSE LET done == ok /\ RawAccepted(tbls, body.query.s)
       IN  Reply(IF done THEN 200 ELSE 500, <<Stmt(body.query.s, 0)>>,
                 IF done THEN RunRaw(tbls, body.query.s) ELSE tbls, cat)

UpdateHandler(body, ok, tbls, cat) ==
  IF Falsy(body.table) \/ Falsy(body.data) \/ Len(ObjectKeys(body.data)) = 0
  THEN Reply(400, <<>>, tbls, cat)
  ELSE IF Falsy(body.where)
  THEN Reply(400, <<>>, tbls, cat)
  ELSE LET setKeys == ObjectKeys(body.data)
           values == ObjectEntries(body.data)
           table == JsString(body.table)
           where == JsString(body.where)
           sql == UpdateSql(table, setKeys, where)
           done == ok /\ UpdateAccepted(table, values)
       IN  Reply(IF done THEN 200 ELSE 500, <<Stmt(sql, Len(setKeys))>>, tbls,
                 IF done THEN UpdateRows(cat, table, values, where) ELSE cat)

DeleteHandler(body, ok, tbls, cat) ==
  IF Falsy(body.table) \/ Falsy(body.where)
  THEN Reply(400, <<>>, tbls, cat)
  ELSE LET table == JsString(body.table)
           where == JsString(body.where)
           sql == DeleteSql(table, where)
       IN  Reply(IF ok THEN 200 ELSE 500, <<Stmt(sql, 0)>>, tbls,
                 IF ok THEN DeleteRows(cat, table, where) ELSE cat)

Handler(ep, body, ok, tbls, cat) ==
  CASE ep = "save" -> SaveHandler(body, ok, tbls, cat)
    [] ep = "read" -> ReadHandler(body, ok, tbls, cat)
    [] ep = "update" -> UpdateHandler(body, ok, tbls, cat)
    [] ep = "delete" -> DeleteHandler(body, ok, tbls, cat)

\* a request arrives: the handler answers 400, or passes its statement to
\* pool.query and is suspended at the await
CrudArrive(r, ep, body) ==
  /\ alive /\ calls[r].stage = "idle"
  /\ LET h == Handler(ep, body, TRUE, tables, txmaster)
     IN  calls' = [calls EXCEPT ![r] =
           IF h.stmts = <<>>
           THEN Call(ep, body, "done", h.status, <<>>, FALSE)
           ELSE Call(ep, body, "query", 0, h.stmts, FALSE)]
  /\ UNCHANGED <<tables, txmaster, alive>>
  /\ UNCHANGED menuVars

Save(r) == \E body \in SaveBodies : CrudArrive(r, "save", body)

Read(r) == \E body \in ReadBodies : CrudArrive(r, "read", body)

Update(r) == \E body \in UpdateBodies : CrudArrive(r, "update", body)

Delete(r) == \E body \in DeleteBodies : CrudArrive(r, "delete", body)

\* the backend runs the statement of a suspended request, on the database
\* as it is then
Execute(r) ==
  /\ alive /\ calls[r].stage = "query"
  /\ \E ok \in BOOLEAN :
       LET c == calls[r]
           h == Handler(c.ep, c.body, ok, tables, txmaster)
       IN  /\ tables' = h.tables
           /\ txmaster' = h.txmaster
           /\ calls' = [calls EXCEPT ![r] =
                Call(c.ep, c.body, "settled", h.status, c.stmts, FALSE)]
  /\ UNCHANGED alive
  /\ UNCHANGED menuVars

\* the await settles: the handler resumes and answers
Answer(r) ==
  /\ alive /\ calls[r].stage = "settled"
  /\ calls' = [calls EXCEPT ![r].stage = "done"]
  /\ UNCHANGED <<tables, txmaster, alive>>
  /\ UNCHANGED menuVars

-----------------------------------------------------------------------------
(* GET /api/me and GET /menuclick/:transid *)

PoolMax == 10

ValidToken == <<"j","w","t">>

TokenVals == {Undefined, Str(<<"b","a","d">>), Str(ValidToken)}

\* jwt.verify(token, JWT_SECRET) returns instead of throwing
JwtVerifies(token) == token.t = "string" /\ token.s = ValidToken

\* authenticate: 401 for a missing or an invalid token, 0 for next()
Authenticate(token) ==
  IF Falsy(token) THEN 401
  ELSE IF ~JwtVerifies(token) THEN 401
  ELSE 0

\* rows of menuclicksql (transid, sql); sql is a nullable TEXT column
MenuClickSqlRows ==
  {[transid |-> <<"m","1">>,
    sql |-> Str(<<"\n","U+00A0","S","e","L","e","c","t"," ","1">>)],
   [transid |-> <<"m","2">>,
    sql |-> Str(<<"D","E","L","E","T","E"," ","F","R","O","M"," ","t">>)],
   [transid |-> <<"m","3">>, sql |-> Null],
   [transid |-> <<"m","4">>,
    sql |-> Str(<<"U+017F","e","l","e","c","t"," ","1">>)]}

TransidVals ==
  {<<"m","1">>, <<"m","2">>, <<"m","3">>, <<"m","4">>, <<"z","z">>}

NoReq == [route |-> "none", token |-> Undefined, transid |-> <<>>]

LookupSql == <<"SELECT sql FROM menuclicksql WHERE transid = $1">>
MeSql ==
  <<"SELECT id, email, firstname, lastname, created_on FROM users WHERE id = $1">>

\* finally { client.release() }: runs after every return and after the catch
ReleasedAfter_SkipOnEarlyReturn(status, n) ==
  IF status \in {400, 404} THEN n ELSE n + 1
ReleasedAfter(status, n) == n + 1

Arrive(r) ==
  /\ alive /\ pc[r] = "idle"
  /\ \E route \in {"me", "menuclick"}, token \in TokenVals,
        transid \in TransidVals :
       /\ req' = [req EXCEPT ![r] =
                    [route |-> route, token |-> token,
                     transid |-> IF route = "me" THEN <<>> ELSE transid]]
       /\ pc' = [pc EXCEPT ![r] = IF route = "me" THEN "auth" ELSE "connect"]
  /\ UNCHANGED <<resp, stmts, sqlToRun, acquired, released, checkedOut, alive>>
  /\ UNCHANGED crudVars

\* app.get("/api/me", authenticate, ...): the middleware
MeAuth(r) ==
  /\ alive /\ pc[r] = "auth"
  /\ LET a == Authenticate(req[r].token)
     IN  IF a = 401
         THEN /\ resp' = [resp EXCEPT ![r] = 401]
              /\ pc' = [pc EXCEPT ![r] = "done"]
         ELSE /\ pc' = [pc EXCEPT ![r] = "mequery"]
              /\ UNCHANGED resp
  /\ UNCHANGED <<req, stmts, sqlToRun, acquired, released, checkedOut, alive>>
  /\ UNCHANGED crudVars

\* the /api/me handler proper
MeQuery(r) ==
  /\ alive /\ pc[r] = "mequery"
  /\ \E ok \in BOOLEAN, found \in BOOLEAN :
       resp' = [resp EXCEPT ![r] =
                  IF ~ok THEN 500 ELSE IF ~found THEN 404 ELSE 200]
  /\ stmts' = [stmts EXCEPT ![r] = Append(@, Stmt(MeSql, 1))]
  /\ pc' = [pc EXCEPT ![r] = "done"]
  /\ UNCHANGED <<req, sqlToRun, acquired, released, checkedOut, alive>>
  /\ UNCHANGED crudVars

\* const client = await pool.connect()
MenuConnect(r) ==
  /\ alive /\ pc[r] = "connect"
  /\ checkedOut < PoolMax
  /\ acquired' = [acquired EXCEPT ![r] = @ + 1]
  /\ checkedOut' = checkedOut + 1
  /\ pc' = [pc EXCEPT ![r] = "lookup"]
  /\ UNCHANGED <<req, resp, stmts, sqlToRun, released, alive>>
  /\ UNCHANGED crudVars

\* pool.connect() rejects.  It is awaited outside the try, so the async
\* handler rejects with no client and no response of its own; what follows
\* is the runtime's: the rejection is dropped and the request never
\* answered ("ignored"), the framework's error handler answers 500
\* ("handled"), or the unhandled rejection ends the process ("exit")
MenuConnectFail(r) ==
  /\ alive /\ pc[r] = "connect"
  /\ \E outcome \in {"ignored", "handled", "exit"} :
       /\ pc' = [pc EXCEPT ![r] =
                   IF outcome = "handled" THEN "done" ELSE "rejected"]
       /\ resp' = [resp EXCEPT ![r] = IF outcome = "handled" THEN 500 ELSE @]
       /\ alive' = (outcome # "exit")
  /\ UNCHANGED <<req, stmts, sqlToRun, acquired, released, checkedOut>>
  /\ UNCHANGED crudVars

\* response sent, then the finally block
Finish(r, status) ==
  /\ resp' = [resp EXCEPT ![r] = status]
  /\ released' = [released EXCEPT ![r] = ReleasedAfter(status, @)]
  /\ checkedOut' = checkedOut - (ReleasedAfter(status, released[r]) - released[r])
  /\ pc' = [pc EXCEPT ![r] = "done"]

\* the catalog lookup and the checks on its result
MenuLookup(r) ==
  /\ alive /\ pc[r] = "lookup"
  /\ stmts' = [stmts EXCEPT ![r] = Append(@, Stmt(LookupSql, 1))]
  /\ \E ok \in BOOLEAN :
       LET rows == {row \in MenuClickSqlRows : row.transid = req[r].transid}
           sql == (CHOOSE row \in rows : TRUE).sql
       IN  IF ~ok THEN Finish(r, 500) /\ UNCHANGED sqlToRun
           ELSE IF rows = {} THEN Finish(r, 404) /\ UNCHANGED sqlToRun
           ELSE IF sql.t # "string" THEN Finish(r, 500) /\ UNCHANGED sqlToRun
           ELSE IF ~StartsWithSelect(Trim(sql.s))
           THEN Finish(r, 400) /\ UNCHANGED sqlToRun
           ELSE /\ sqlToRun' = [sqlToRun EXCEPT ![r] = sql.s]
                /\ pc' = [pc EXCEPT ![r] = "exec"]
                /\ UNCHANGED <<resp, released, checkedOut>>
  /\ UNCHANGED <<req, acquired, alive>>
  /\ UNCHANGED crudVars

\* the stored statement
MenuExec(r) ==
  /\ alive /\ pc[r] = "exec"
  /\ stmts' = [stmts EXCEPT ![r] = Append(@, Stmt(sqlToRun[r], 0))]
  /\ \E ok \in BOOLEAN : Finish(r, IF ok THEN 200 ELSE 500)
  /\ UNCHANGED <<req, sqlToRun, acquired, alive>>
  /\ UNCHANGED crudVars

-----------------------------------------------------------------------------
(* Specifications *)

Init ==
  /\ tables = <<>>
  /\ txmaster = EmptyBag
  /\ calls = [r \in Reqs |-> NoCall]
  /\ alive = TRUE
  /\ pc = [r \in Reqs |-> "idle"]
  /\ req = [r \in Reqs |-> NoReq]
  /\ resp = [r \in Reqs |-> 0]
  /\ stmts = [r \in Reqs |-> <<>>]
  /\ sqlToRun = [r \in Reqs |-> <<>>]
  /\ acquired = [r \in Reqs |-> 0]
  /\ released = [r \in Reqs |-> 0]
  /\ checkedOut = 0

NextApi ==
  \/ \E r \in Reqs : CreateTableArrive(r)
  \/ \E r \in Reqs : RunCreateTable(r)
  \/ \E r \in Reqs : CreateTableCreated(r)
  \/ \E r \in Reqs : RunInsertTxmaster(r)
  \/ \E r \in Reqs : CreateTableInserted(r)
  \/ \E r \in Reqs : Save(r)
  \/ \E r \in Reqs : Read(r)
  \/ \E r \in Reqs : Update(r)
  \/ \E r \in Reqs : Delete(r)
  \/ \E r \in Reqs : Execute(r)
  \/ \E r \in Reqs : Answer(r)

SpecApi == Init /\ [][NextApi]_vars

NextMenu ==
  \/ \E r \in Reqs : Arrive(r)
  \/ \E r \in Reqs : MeAuth(r)
  \/ \E r \in Reqs : MeQuery(r)
  \/ \E r \in Reqs : MenuConnect(r)
  \/ \E r \in Reqs : MenuConnectFail(r)
  \/ \E r \in Reqs : MenuLookup(r)
  \/ \E r \in Reqs : MenuExec(r)

SpecMenu == Init /\ [][NextMenu]_vars

TypeOK ==
  /\ BagCardinality(txmaster) <= NumReqs
  /\ checkedOut \in 0..NumReqs
  /\ alive \in BOOLEAN

-----------------------------------------------------------------------------
(* Properties *)

SanitizedKeys(o) ==
  [i \in 1..Len(ObjectKeys(o)) |-> Sanitize(ObjectKeys(o)[i])]
SanitizedEntries(o) ==
  [i \in 1..Len(ObjectEntries(o)) |->
     [k |-> Sanitize(ObjectEntries(o)[i].k), v |-> ObjectEntries(o)[i].v]]
AllNonEmpty(names) == \A i \in 1..Len(names) : names[i] # <<>>

\* C1: every table name and column name that appears in the text of a
\* statement executed by create-table, save, update or delete is the
\* sanitized form (lower-cased, stripped to [a-z0-9_], non-empty) of the
\* name the client supplied, the keys of fields and of data included.
C1_IdentifiersSanitized ==
  \A r \in Reqs :
    LET b == calls[r].body
        sql == calls[r].stmts[1].sql
        safeTable == Sanitize(JsString(b.table))
    IN  calls[r].stmts # <<>> =>
          CASE calls[r].ep = "create-table" ->
                 /\ safeTable # <<>> /\ AllNonEmpty(SanitizedKeys(b.fields))
                 /\ sql = CreateTableSql(safeTable, SanitizedEntries(b.fields))
            [] calls[r].ep = "save" ->
                 /\ safeTable # <<>> /\ AllNonEmpty(SanitizedKeys(b.data))
                 /\ sql = InsertSql(safeTable, SanitizedKeys(b.data))
            [] calls[r].ep = "update" ->
                 /\ safeTable # <<>> /\ AllNonEmpty(SanitizedKeys(b.data))
                 /\ sql = UpdateSql(safeTable, SanitizedKeys(b.data),
                                    JsString(b.where))
            [] calls[r].ep = "delete" ->
                 /\ safeTable # <<>>
                 /\ sql = DeleteSql(safeTable, JsString(b.where))
            [] OTHER -> TRUE

\* a filter is a condition string or an equality map: none, the empty
\* string and the empty map are the absent and the empty ones
AbsentOrEmpty(where) ==
  where = Undefined \/ where = Null \/ where = Str(<<>>) \/ where = Obj(<<>>)

\* C2: an update or a delete request whose where is absent or empty is
\* answered 400 and passes no statement to the pool, whatever data holds.
C2_MissingWhereRejected ==
  \A r \in Reqs :
    (calls[r].ep \in {"update", "delete"}
     /\ AbsentOrEmpty(calls[r].body.where))
      => (calls[r].stage = "done" /\ calls[r].status = 400
          /\ calls[r].stmts = <<>>)

\* C3: on the read endpoint and on the named-query endpoint a statement
\* that does not begin with SELECT (in any letter case) is answered 400 and
\* never executed, and one that does is executed.
C3_OnlySelectExecuted ==
  /\ \A r \in Reqs :
       (calls[r].ep = "read" /\ ~Falsy(calls[r].body.query)) =>
         IF StartsWithSelect(calls[r].body.query.s)
         THEN calls[r].stmts # <<>> /\ calls[r].status # 400
         ELSE /\ calls[r].stmts = <<>>
              /\ calls[r].stage = "done" /\ calls[r].status = 400
  /\ \A r \in Reqs :
        req[r].route = "menuclick" =>
          /\ \A i \in 2..Len(stmts[r]) : StartsWithSelect(Trim(stmts[r][i].sql))
          /\ (pc[r] = "done" /\ resp[r] = 400) => Len(stmts[r]) = 1

\* C4: a /menuclick request without a valid credential token is answered
\* 401 and executes no statement, neither the lookup nor the stored one.
C4_MenuclickNeedsCredential ==
  \A r \in Reqs :
    (req[r].route = "menuclick" /\ ~JwtVerifies(req[r].token)) =>
      /\ stmts[r] = <<>>
      /\ pc[r] = "done" => resp[r] = 401

Succeeded(c) ==
  c.ep = "create-table" /\ c.stage = "done" /\ c.status = 201

\* catalog rows that register the table
Registrations(cat, name) ==
  LET rows == {row \in BagToSet(cat) : row.dbname = name}
  IN  BagCardinality([row \in rows |-> CopiesIn(row, cat)])

\* C5: when two create-table requests with the same (entity name, table
\* name, fields) have both completed with 201, and no other request was
\* made, the table exists and the catalog holds exactly one row
\* registering it, as after a single call.
C5_CreateTableIdempotent ==
  \A r, q \in Reqs :
    (/\ r # q
     /\ Succeeded(calls[r]) /\ Succeeded(calls[q])
     /\ calls[r].body = calls[q].body
     /\ \A p \in Reqs \ {r, q} : calls[p].ep = "none")
    => LET safeTable == Sanitize(calls[r].body.table.s)
       IN  /\ safeTable \in DOMAIN tables
           /\ Registrations(txmaster, safeTable) = 1

\* a map of column name to type string with a type string outside the
\* whitelist at some position
HasTypeOutsideWhitelist(fields) ==
  /\ fields.t = "object"
  /\ \A i \in 1..Len(fields.e) : fields.e[i].v.t = "string"
  /\ \E i \in 1..Len(fields.e) : ~IsAllowedType(fields.e[i].v)

\* C6: a create-table request (table name absent or a string) whose fields
\* map holds a type string outside the whitelist, at any position, is
\* answered 400 and passes no statement to the pool, neither DDL nor
\* catalog write.
C6_InvalidTypeNoSideEffects ==
  \A r \in Reqs :
    (/\ calls[r].ep = "create-table"
     /\ calls[r].body.table.t \in {"undefined", "string"}
     /\ HasTypeOutsideWhitelist(calls[r].body.fields))
      => (calls[r].stage = "done" /\ calls[r].status = 400
          /\ calls[r].stmts = <<>>)

\* a request for the existing table k whose second type, in the order of
\* Object.entries, is the one outside the whitelist
C6_Witness ==
  \E r \in Reqs :
    /\ calls[r].ep = "create-table"
    /\ calls[r].body.table = Str(<<"k">>)
    /\ calls[r].body.fields = TwoColumns
    /\ ObjectEntries(TwoColumns)[1].v = Blob
    /\ ObjectEntries(TwoColumns)[2].v = Json
    /\ <<"k">> \in DOMAIN tables
    /\ calls[r].stage = "done" /\ calls[r].status = 400
    /\ calls[r].stmts = <<>>

Quiescent == \A r \in Reqs : calls[r].stage \in {"idle", "done"}

\* C7: once the create-table requests have completed, no other request
\* having been made, a physical table exists if and only if the catalog
\* holds a row registering it.
C7_CatalogMatchesTables ==
  (Quiescent /\ \A r \in Reqs : calls[r].ep \in {"none", "create-table"}) =>
    \A name \in DOMAIN tables \cup {r.dbname : r \in BagToSet(txmaster)} :
      name \in DOMAIN tables <=> Registered(txmaster, name)

\* C8: after a successful create-table for a table that existed when the
\* request arrived, every requested column is on the physical table.
C8_ExistingTableExtended ==
  \A r \in Reqs :
    LET c == calls[r]
        safeTable == Sanitize(c.body.table.s)
    IN  (Succeeded(c) /\ c.tableExisted /\ safeTable \in DOMAIN tables) =>
          \A i \in 1..Len(c.body.fields.e) :
            c.body.fields.e[i].k \in tables[safeTable]

\* C9: a save request whose data is an empty mapping is answered 400 and
\* passes no statement to the pool.
C9_EmptyPayloadRejected ==
  \A r \in Reqs :
    (calls[r].ep = "save" /\ calls[r].body.data = Obj(<<>>))
      => (calls[r].stage = "done" /\ calls[r].status = 400
          /\ calls[r].stmts = <<>>)

InFlight == {r \in Reqs : pc[r] \in {"lookup", "exec"}}

\* C10: a /menuclick request that acquired a client holds it to the end of
\* the handler and releases it exactly once on every exit (404, 400, 500,
\* 200); a request acquires at most one client, a completed request has
\* none checked out, and the pool counts as checked out exactly the
\* requests in flight.
C10_ClientReleasedOnce ==
  /\ \A r \in Reqs :
       /\ acquired[r] <= 1
       /\ pc[r] \in {"lookup", "exec"} => (acquired[r] = 1 /\ released[r] = 0)
       /\ pc[r] = "done" => released[r] = acquired[r]
       /\ (pc[r] = "done" /\ stmts[r] # <<>> /\ req[r].route = "menuclick")
            => (acquired[r] = 1 /\ released[r] = 1)
       /\ pc[r] \notin {"lookup", "exec", "done"}
            => (acquired[r] = 0 /\ released[r] = 0)
  /\ checkedOut = Cardinality(InFlight)

\* one request ended by the non-SELECT check and another by a failure of
\* the stored statement, both with their client back in the pool
C10_Witness ==
  \E r1, r2 \in Reqs :
    /\ req[r1].route = "menuclick" /\ req[r2].route = "menuclick"
    /\ pc[r1] = "done" /\ resp[r1] = 400
    /\ pc[r2] = "done" /\ resp[r2] = 500 /\ Len(stmts[r2]) = 2
    /\ released[r1] = 1 /\ released[r2] = 1
    /\ checkedOut = 0

====
